---- MODULE Spec2Model ----
(***************************************************************************)
(* A model of TileScope (src/TileScope.py): the tile-ID addressing of the  *)
(* 128 x 32 reference grid, the zoom / pan viewport with its clamping, the *)
(* click selection, the scaled image and its overlay cache, the open and   *)
(* search dialogs, the visible tile range and the export run.              *)
(*                                                                         *)
(* Numbers.  The program computes zoom and offsets in Python floats.  The  *)
(* model computes them as exact rationals <<n, d>> (d >= 1, lowest terms), *)
(* i.e. it follows the arithmetic the floats approximate; every int(),     *)
(* floor division, min, max and comparison of the code is applied to these *)
(* values as the code applies it.                                          *)
(***************************************************************************)
EXTENDS Integers, Sequences, FiniteSets, TLC

VARIABLES
    zoom,                 \* self.zoom (conceptual zoom), rational
    actual_applied_zoom,  \* self.actual_applied_zoom (effective zoom), rational
    offset_x, offset_y,   \* self.offset_x / self.offset_y, rationals
    screen_width,         \* self.screen_width, integer
    screen_height,        \* self.screen_height, integer
    show_ui_panel_flag,   \* self.show_ui_panel_flag
    dragging,             \* self.dragging
    last_mouse_pos,       \* self.last_mouse_pos, <<x, y>>
    mouse_pos,            \* the pointer position pygame reports, <<x, y>>
    hover,                \* <<hover_col, hover_row>>, or None
    selected_tiles,       \* self.selected_tiles, a set of <<col, row>>
    last_event,           \* the event handled last (its kind and inputs)
    budget,               \* how many more events the model handles
    call,                 \* which addressing function was called last
    arg_col, arg_row,     \* arguments of the last compute_tile_id call
    tile_id_val,          \* its result
    arg_id,               \* argument of the last get_tile_from_id call
    coords,               \* its result: <<col, row>> or None
    temp_message,         \* self.temp_message: NoMessage or [level, text, about]
    base_tileset_image,   \* self.base_tileset_image: [source, size, content]
    scaled_tileset_image, \* self.scaled_tileset_image: [source, size]
    tileset_area_overlay_surface,     \* its size <<w, h>>
    cached_actual_zoom_for_overlays,  \* rational
    cached_scaled_hover_surface,      \* its side in pixels
    cached_scaled_select_surface,     \* its side in pixels
    show_grid, show_numbers, show_background_overlay,
    export_requested,     \* self.export_requested
    show_export_progress, \* self.show_export_progress
    export_progress,      \* self.export_progress, rational
    export_pc,            \* where export_tileset_image stands
    processed_tiles,      \* its local processed_tiles
    save_calls,           \* calls of pygame.image.save in the last export run
    saved_files,          \* what each successful save wrote
    event_queue,          \* the types of the events pending in pygame's queue
    visible_range,        \* the last result of get_visible_tile_range, or None
    rebuild_work,         \* what the last update_scaled_tileset_and_overlays
                          \* call rescaled or rebuilt
    running,              \* run()'s local running: the main loop goes on
    settings_saved        \* calls of save_settings_to_ini so far

vars == <<zoom, actual_applied_zoom, offset_x, offset_y, screen_width,
          screen_height, show_ui_panel_flag, dragging, last_mouse_pos,
          mouse_pos, hover, selected_tiles, last_event, budget,
          call, arg_col, arg_row, tile_id_val, arg_id, coords,
          temp_message, base_tileset_image, scaled_tileset_image,
          tileset_area_overlay_surface, cached_actual_zoom_for_overlays,
          cached_scaled_hover_surface, cached_scaled_select_surface,
          show_grid, show_numbers, show_background_overlay, export_requested,
          show_export_progress, export_progress, export_pc, processed_tiles,
          save_calls, saved_files, event_queue, visible_range,
          rebuild_work, running, settings_saved>>

viewVars == <<zoom, actual_applied_zoom, offset_x, offset_y, screen_width,
              screen_height, show_ui_panel_flag, dragging, last_mouse_pos,
              mouse_pos, hover, selected_tiles, last_event, budget>>

gridVars == <<call, arg_col, arg_row, tile_id_val, arg_id, coords>>

\* What update_scaled_tileset_and_overlays rebuilds.
scaledVars == <<scaled_tileset_image, tileset_area_overlay_surface,
                cached_actual_zoom_for_overlays, cached_scaled_hover_surface,
                cached_scaled_select_surface, rebuild_work>>

imageVars == <<base_tileset_image, scaledVars>>

exportVars == <<show_grid, show_numbers, show_background_overlay,
                export_requested, show_export_progress, export_progress,
                export_pc, processed_tiles, save_calls, saved_files,
                event_queue>>

\* The main loop of run() (lines 1102-1128).
loopVars == <<running, settings_saved>>

\* Python's None (a value no coordinate pair equals).
None == <<>>

\* self.temp_message = None, as a record of the shape of the messages.
NoMessage == [level |-> "none", text |-> "", about |-> <<>>]

-----------------------------------------------------------------------------
(* Configuration constants, src/TileScope.py lines 71-78.                  *)

TILESET_WIDTH == 2048
TILESET_HEIGHT == 512
TILE_SIZE == 16
COLS == TILESET_WIDTH \div TILE_SIZE
ROWS == TILESET_HEIGHT \div TILE_SIZE
\* TOTAL_TILES with the product mistyped as a sum.
TOTAL_TILES_sum == COLS + ROWS

TOTAL_TILES == COLS * ROWS
MAX_SURFACE_DIM == 8192

-----------------------------------------------------------------------------
(* Exact rational arithmetic standing for the float arithmetic.            *)

Abs(n) == IF n < 0 THEN -n ELSE n

RECURSIVE GCD(_, _)
GCD(a, b) == IF b = 0 THEN a ELSE GCD(b, a % b)

\* n/d in lowest terms, d > 0.
Norm(n, d) == LET g == GCD(Abs(n), d) IN <<n \div g, d \div g>>

R(n) == <<n, 1>>
Frac(n, d) == Norm(n, d)

LCM(a, b) == (a \div GCD(a, b)) * b

RAdd(a, b) ==
    LET l == LCM(a[2], b[2])
    IN  Norm(a[1] * (l \div a[2]) + b[1] * (l \div b[2]), l)

RNeg(a) == <<-a[1], a[2]>>

RSub(a, b) == RAdd(a, RNeg(b))

RMul(a, b) ==
    LET g1 == GCD(Abs(a[1]), b[2])
        g2 == GCD(Abs(b[1]), a[2])
    IN  <<(a[1] \div g1) * (b[1] \div g2), (a[2] \div g2) * (b[2] \div g1)>>

\* a / b for b # 0.
RDiv(a, b) ==
    IF b[1] > 0 THEN RMul(a, <<b[2], b[1]>>) ELSE RMul(a, <<-b[2], -b[1]>>)

RLt(a, b) ==
    LET l == LCM(a[2], b[2])
    IN  a[1] * (l \div a[2]) < b[1] * (l \div b[2])

RLe(a, b) == ~RLt(b, a)

RMin(a, b) == IF RLt(b, a) THEN b ELSE a
RMax(a, b) == IF RLt(a, b) THEN b ELSE a
RAbs(a) == <<Abs(a[1]), a[2]>>

\* math.floor: the largest integer <= a.
RFloor(a) == a[1] \div a[2]

\* int(): truncation toward zero.
RInt(a) == IF a[1] >= 0 THEN a[1] \div a[2] ELSE -((-a[1]) \div a[2])

\* round(): to the nearest integer, a tie to the even one.
RRound(a) ==
    LET f == a[1] \div a[2]
        twice == 2 * (a[1] % a[2])
    IN  IF twice < a[2] THEN f
        ELSE IF twice > a[2] THEN f + 1
        ELSE IF f % 2 = 0 THEN f ELSE f + 1

\* The thresholds the code compares against.
EPS6 == Frac(1, 1000000)
EPS5 == Frac(1, 100000)

-----------------------------------------------------------------------------
(* Tile addressing, src/TileScope.py lines 601-612.                        *)

Grid == (0 .. COLS - 1) \X (0 .. ROWS - 1)

\* compute_tile_id with a band stride of 256 instead of 512: the bands of 16
\* columns overlap.
compute_tile_id_stride256(col, row) ==
    (col % 16) + (col \div 16) * 256 + row * 16

\* compute_tile_id as plain row-major numbering.
compute_tile_id_rowmajor(col, row) == row * (TILESET_WIDTH \div TILE_SIZE) + col

compute_tile_id(col, row) == (col % 16) + (col \div 16) * 512 + row * 16

\* The scan of get_tile_from_id visits rows in order and, within a row, the
\* columns in order, and returns the first coordinate whose ID matches.
ScansBefore(p, q) == p[2] < q[2] \/ (p[2] = q[2] /\ p[1] <= q[1])

\* get_tile_from_id returning (row, col) instead of (col, row).
get_tile_from_id_swapped(tile_id) ==
    IF ~(0 <= tile_id /\ tile_id < TOTAL_TILES) THEN None
    ELSE LET hits == {p \in Grid : compute_tile_id(p[1], p[2]) = tile_id}
         IN  IF hits = {} THEN None
             ELSE LET f == CHOOSE p \in hits : \A q \in hits : ScansBefore(p, q)
                  IN  <<f[2], f[1]>>

\* get_tile_from_id with the range check 0 < tile_id < TOTAL_TILES.
get_tile_from_id_positive(tile_id) ==
    IF ~(0 < tile_id /\ tile_id < TOTAL_TILES) THEN None
    ELSE LET hits == {p \in Grid : compute_tile_id(p[1], p[2]) = tile_id}
         IN  IF hits = {} THEN None
             ELSE CHOOSE p \in hits : \A q \in hits : ScansBefore(p, q)

get_tile_from_id(tile_id) ==
    IF ~(0 <= tile_id /\ tile_id < TOTAL_TILES) THEN None
    ELSE LET hits == {p \in Grid : compute_tile_id(p[1], p[2]) = tile_id}
         IN  IF hits = {} THEN None
             ELSE CHOOSE p \in hits : \A q \in hits : ScansBefore(p, q)

-----------------------------------------------------------------------------
(* The viewport, src/TileScope.py lines 461-559 and 690-752.               *)

min_zoom == Frac(1, 20)
max_zoom == R(4)

PANEL_HEIGHT == 85

\* panel_height as every method computes it; the panel, once created by
\* setup_ui_elements, stays alive.
panel_height(flag) == IF flag THEN PANEL_HEIGHT ELSE 0

view_height_of(sh, flag) == sh - panel_height(flag)

\* update_scaled_tileset_and_overlays: the size of the scaled image.
final_scaled_w(z) ==
    LET conceptual_w == RMul(R(TILESET_WIDTH), z)
        conceptual_h == RMul(R(TILESET_HEIGHT), z)
        aspect == Frac(TILESET_WIDTH, TILESET_HEIGHT)
        w == IF RLt(R(MAX_SURFACE_DIM), conceptual_w) THEN R(MAX_SURFACE_DIM)
             ELSE IF RLt(R(MAX_SURFACE_DIM), conceptual_h)
                  THEN RMul(R(MAX_SURFACE_DIM), aspect)
                  ELSE conceptual_w
    IN  IF RInt(w) < 1 THEN 1 ELSE RInt(w)

\* The height of the scaled image rounded to the nearest integer instead of
\* truncated.
final_scaled_h_rounded(z) ==
    LET conceptual_w == RMul(R(TILESET_WIDTH), z)
        conceptual_h == RMul(R(TILESET_HEIGHT), z)
        aspect == Frac(TILESET_WIDTH, TILESET_HEIGHT)
        h == IF RLt(R(MAX_SURFACE_DIM), conceptual_w)
             THEN RDiv(R(MAX_SURFACE_DIM), aspect)
             ELSE IF RLt(R(MAX_SURFACE_DIM), conceptual_h) THEN R(MAX_SURFACE_DIM)
                  ELSE conceptual_h
    IN  IF RRound(h) < 1 THEN 1 ELSE RRound(h)

final_scaled_h(z) ==
    LET conceptual_w == RMul(R(TILESET_WIDTH), z)
        conceptual_h == RMul(R(TILESET_HEIGHT), z)
        aspect == Frac(TILESET_WIDTH, TILESET_HEIGHT)
        h == IF RLt(R(MAX_SURFACE_DIM), conceptual_w)
             THEN RDiv(R(MAX_SURFACE_DIM), aspect)
             ELSE IF RLt(R(MAX_SURFACE_DIM), conceptual_h) THEN R(MAX_SURFACE_DIM)
                  ELSE conceptual_h
    IN  IF RInt(h) < 1 THEN 1 ELSE RInt(h)

\* update_scaled_tileset_and_overlays: the zoom actually applied.
applied_zoom(z) ==
    LET by_w == Frac(final_scaled_w(z), TILESET_WIDTH)
        by_h == Frac(final_scaled_h(z), TILESET_HEIGHT)
    IN  IF RLt(EPS5, RAbs(RSub(by_h, by_w))) THEN by_h ELSE by_w

\* clamp_offset adding the centering offset to the current one (+= for =).
clamp_axis_increment(off, z, view, image) ==
    LET conceptual == RMul(R(image), z)
    IN  IF RLt(conceptual, R(view))
        THEN RAdd(off, RDiv(RSub(R(view), conceptual), R(2)))
        ELSE RMin(R(0), RMax(off, RSub(R(view), conceptual)))

\* clamp_offset on one axis: view is the view size on that axis, image the
\* unscaled image size.
clamp_axis(off, z, view, image) ==
    LET conceptual == RMul(R(image), z)
    IN  IF RLt(conceptual, R(view))
        THEN RDiv(RSub(R(view), conceptual), R(2))
        ELSE RMin(R(0), RMax(off, RSub(R(view), conceptual)))

clamp_x(off, z, sw) == clamp_axis(off, z, sw, TILESET_WIDTH)

\* clamp_offset taking the whole window height for the view height.
clamp_y_full_height(off, z, sh, flag) ==
    clamp_axis(off, z, sh, TILESET_HEIGHT)

clamp_y(off, z, sh, flag) ==
    clamp_axis(off, z, view_height_of(sh, flag), TILESET_HEIGHT)

\* The zoom clamp without its upper bound.
clamp_zoom_no_max(z) == RMax(min_zoom, z)

\* The zoom clamp of _adjust_zoom_internal.
clamp_zoom(z) == RMax(min_zoom, RMin(z, max_zoom))

\* _adjust_zoom_internal without its early return: the offsets, the scaled
\* image and the clamp are redone also when the zoom did not change.
adjust_zoom_internal_no_return(factor, cx, cy) ==
    LET old == zoom
        new == clamp_zoom(RMul(zoom, factor))
        ratio == RDiv(new, old)
        ox == RSub(cx, RMul(RSub(cx, offset_x), ratio))
        oy == RSub(cy, RMul(RSub(cy, offset_y), ratio))
    IN  [zoom |-> new, actual |-> applied_zoom(new),
         ox |-> clamp_x(ox, new, screen_width),
         oy |-> clamp_y(oy, new, screen_height, show_ui_panel_flag),
         changed |-> TRUE]

\* _adjust_zoom_internal: the viewport after the call, as a record.
adjust_zoom_internal(factor, cx, cy) ==
    LET old == zoom
        new == clamp_zoom(RMul(zoom, factor))
        ratio == RDiv(new, old)
        ox == RSub(cx, RMul(RSub(cx, offset_x), ratio))
        oy == RSub(cy, RMul(RSub(cy, offset_y), ratio))
    IN  IF RLt(RAbs(RSub(new, old)), EPS6)
        THEN [zoom |-> zoom, actual |-> actual_applied_zoom,
              ox |-> offset_x, oy |-> offset_y, changed |-> FALSE]
        ELSE [zoom |-> new, actual |-> applied_zoom(new),
              ox |-> clamp_x(ox, new, screen_width),
              oy |-> clamp_y(oy, new, screen_height, show_ui_panel_flag),
              changed |-> TRUE]

\* reset_view aligning the image's right and bottom edges with the view's
\* instead of centering it.
reset_view_edge ==
    LET a == applied_zoom(R(1))
        vh == view_height_of(screen_height, show_ui_panel_flag)
        ox == RSub(R(screen_width), RMul(R(TILESET_WIDTH), a))
        oy == RSub(R(vh), RMul(R(TILESET_HEIGHT), a))
    IN  [zoom |-> R(1), actual |-> a,
         ox |-> clamp_x(ox, R(1), screen_width),
         oy |-> clamp_y(oy, R(1), screen_height, show_ui_panel_flag)]

\* reset_view centering the image without setting the zoom back to 1.0.
reset_view_keep_zoom ==
    LET a == applied_zoom(zoom)
        vh == view_height_of(screen_height, show_ui_panel_flag)
        ox == RDiv(RSub(R(screen_width), RMul(R(TILESET_WIDTH), a)), R(2))
        oy == RDiv(RSub(R(vh), RMul(R(TILESET_HEIGHT), a)), R(2))
    IN  [zoom |-> zoom, actual |-> a,
         ox |-> clamp_x(ox, zoom, screen_width),
         oy |-> clamp_y(oy, zoom, screen_height, show_ui_panel_flag)]

\* reset_view
reset_view_result ==
    LET a == applied_zoom(R(1))
        vh == view_height_of(screen_height, show_ui_panel_flag)
        ox == RDiv(RSub(R(screen_width), RMul(R(TILESET_WIDTH), a)), R(2))
        oy == RDiv(RSub(R(vh), RMul(R(TILESET_HEIGHT), a)), R(2))
    IN  [zoom |-> R(1), actual |-> a,
         ox |-> clamp_x(ox, R(1), screen_width),
         oy |-> clamp_y(oy, R(1), screen_height, show_ui_panel_flag)]

\* center_on_tile_id setting the zoom to 2.0 whatever it was.
center_on_tile_result_zoom2(col, row) ==
    LET z == R(2)
        a == applied_zoom(z)
        tcx == RMul(RMul(Frac(2 * col + 1, 2), R(TILE_SIZE)), a)
        tcy == RMul(RMul(Frac(2 * row + 1, 2), R(TILE_SIZE)), a)
        vcx == Frac(screen_width, 2)
        vcy == Frac(view_height_of(screen_height, show_ui_panel_flag), 2)
    IN  [zoom |-> z, actual |-> a,
         ox |-> clamp_x(RSub(vcx, tcx), z, screen_width),
         oy |-> clamp_y(RSub(vcy, tcy), z, screen_height, show_ui_panel_flag)]

\* center_on_tile_id centering the tile's top-left corner (col, row for
\* col + 0.5, row + 0.5).
center_on_tile_result_corner(col, row) ==
    LET z == IF RLt(zoom, R(2)) THEN R(2) ELSE zoom
        a == applied_zoom(z)
        tcx == RMul(RMul(R(col), R(TILE_SIZE)), a)
        tcy == RMul(RMul(R(row), R(TILE_SIZE)), a)
        vcx == Frac(screen_width, 2)
        vcy == Frac(view_height_of(screen_height, show_ui_panel_flag), 2)
    IN  [zoom |-> z, actual |-> a,
         ox |-> clamp_x(RSub(vcx, tcx), z, screen_width),
         oy |-> clamp_y(RSub(vcy, tcy), z, screen_height, show_ui_panel_flag)]

\* center_on_tile_id for a tile that was found.
center_on_tile_result(col, row) ==
    LET z == IF RLt(zoom, R(2)) THEN R(2) ELSE zoom
        a == applied_zoom(z)
        tcx == RMul(RMul(Frac(2 * col + 1, 2), R(TILE_SIZE)), a)
        tcy == RMul(RMul(Frac(2 * row + 1, 2), R(TILE_SIZE)), a)
        vcx == Frac(screen_width, 2)
        vcy == Frac(view_height_of(screen_height, show_ui_panel_flag), 2)
    IN  [zoom |-> z, actual |-> a,
         ox |-> clamp_x(RSub(vcx, tcx), z, screen_width),
         oy |-> clamp_y(RSub(vcy, tcy), z, screen_height, show_ui_panel_flag)]

\* int(v // TILE_SIZE) for the quotient v = x / a of a rational x >= 0 by a
\* rational a > 0, v < image: the index i with i * TILE_SIZE * a <= x <
\* (i + 1) * TILE_SIZE * a.  (The quotient itself is not formed: its
\* numerator can exceed the integers TLC computes with.)
tile_index(x, a, image) ==
    CHOOSE i \in 0 .. (image \div TILE_SIZE) - 1 :
        /\ RLe(RMul(R(i * TILE_SIZE), a), x)
        /\ RLt(x, RMul(R((i + 1) * TILE_SIZE), a))

\* 0 <= x / a < image, for a > 0.
inside_image(x, a, image) == RLe(R(0), x) /\ RLt(x, RMul(R(image), a))

\* The hover tile a MOUSEMOTION event at pos computes (lines 879-891), from
\* the offsets ox, oy left by the drag part of the same event.
hover_at(pos, ox, oy) ==
    IF pos[2] < screen_height - panel_height(show_ui_panel_flag)
    THEN LET safe == IF RLt(EPS6, actual_applied_zoom)
                     THEN actual_applied_zoom ELSE R(1)
             x == RSub(R(pos[1]), ox)
             y == RSub(R(pos[2]), oy)
         IN  IF inside_image(x, safe, TILESET_WIDTH)
                /\ inside_image(y, safe, TILESET_HEIGHT)
             THEN <<tile_index(x, safe, TILESET_WIDTH),
                    tile_index(y, safe, TILESET_HEIGHT)>>
             ELSE None
    ELSE None

\* A click whose toggle only ever adds the tile.
click_selection_add_only(sel, h, toggle) ==
    IF h = None THEN sel
    ELSE IF toggle THEN sel \cup {h} ELSE {h}

\* The clicked tile recomputed from the pointer position and the current
\* view.
tile_coords_at_pointer == hover_at(mouse_pos, offset_x, offset_y)

\* tile_coords of a left click (lines 849-850): the stored hover tile.
tile_coords == hover

\* A left-button release that clears dragging whether or not the UI consumed
\* the event.
release_dragging_always(d, ui_consumed_event) == FALSE

\* self.dragging after a left-button MOUSEBUTTONUP (lines 841, 864-866): the
\* release is handled only when the UI manager did not consume the event.
release_dragging(d, ui_consumed_event) ==
    IF ui_consumed_event THEN d ELSE FALSE

\* A click without modifier that adds the tile to the selection instead of
\* replacing the selection by it.
click_selection_keep_others(sel, h, toggle) ==
    IF h = None THEN sel
    ELSE IF toggle
         THEN IF h \in sel THEN sel \ {h} ELSE sel \cup {h}
         ELSE sel \cup {h}

\* The selection after a left click on the hover tile h (lines 849-858);
\* toggle is TRUE when shift or ctrl is held.
click_selection(sel, h, toggle) ==
    IF h = None THEN sel
    ELSE IF toggle
         THEN IF h \in sel THEN sel \ {h} ELSE sel \cup {h}
         ELSE {h}

-----------------------------------------------------------------------------
(* The render cache, src/TileScope.py lines 461-514.                       *)

\* The size of the scaled image and of the dimming overlay at zoom z
\* (lines 478-482, 494-498).
scaled_size(z) == <<final_scaled_w(z), final_scaled_h(z)>>

\* current_on_screen_tile_size (line 503) and the side of the overlay tiles
\* built from it (lines 505-513) at effective zoom a.
overlay_tile_px(a) ==
    LET current_on_screen_tile_size == RRound(RMul(R(TILE_SIZE), a))
    IN  IF current_on_screen_tile_size < 1 THEN 1
        ELSE current_on_screen_tile_size

\* What a call of update_scaled_tileset_and_overlays at effective zoom a
\* does: the base image is rescaled (lines 480-485) and the dimming overlay
\* rebuilt (lines 493-500) on every call; the hover / select tiles are
\* rescaled only when a is more than 1e-6 from the zoom they were cached for
\* (lines 504-514).
rescale_work(a, cached_zoom) ==
    [base |-> TRUE, overlay |-> TRUE,
     tiles |-> RLt(EPS6, RAbs(RSub(a, cached_zoom)))]

\* The overlay-tile cache re-built only when the effective zoom moved by
\* more than 0.5.
overlay_cache_coarse(a, cached_zoom, surface_px) ==
    IF RLt(Frac(1, 2), RAbs(RSub(a, cached_zoom)))
    THEN [zoom |-> a, px |-> overlay_tile_px(a)]
    ELSE [zoom |-> cached_zoom, px |-> surface_px]

\* The overlay-tile cache update_scaled_tileset_and_overlays leaves (lines
\* 502-514) at effective zoom a: the cache was built for cached_zoom and its
\* tiles are surface_px pixels wide.
overlay_cache(a, cached_zoom, surface_px) ==
    IF RLt(EPS6, RAbs(RSub(a, cached_zoom)))
    THEN [zoom |-> a, px |-> overlay_tile_px(a)]
    ELSE [zoom |-> cached_zoom, px |-> surface_px]

-----------------------------------------------------------------------------
(* get_visible_tile_range, src/TileScope.py lines 791-808.                 *)

Max(a, b) == IF a < b THEN b ELSE a
Min(a, b) == IF b < a THEN b ELSE a

\* int(v // TILE_SIZE)
floor_tile(v) == RFloor(RDiv(v, R(TILE_SIZE)))

\* (start_col, end_col, start_row, end_row) for offsets ox, oy, effective
\* zoom a, window sw x sh and panel visibility flag.
get_visible_tile_range(ox, oy, a, sw, sh, flag) ==
    LET safe_actual_zoom == IF RLt(EPS6, a) THEN a ELSE R(1)
        base_img_x_start == RDiv(RNeg(ox), safe_actual_zoom)
        base_img_y_start == RDiv(RNeg(oy), safe_actual_zoom)
        base_img_x_end == RAdd(base_img_x_start, RDiv(R(sw), safe_actual_zoom))
        base_img_y_end == RAdd(base_img_y_start,
                               RDiv(R(sh - panel_height(flag)), safe_actual_zoom))
    IN  <<Max(0, floor_tile(base_img_x_start)),
          Min(COLS, floor_tile(base_img_x_end) + 2),
          Max(0, floor_tile(base_img_y_start)),
          Min(ROWS, floor_tile(base_img_y_end) + 2)>>

-----------------------------------------------------------------------------
(* Loading an image, src/TileScope.py lines 436-453 and 702-715.           *)

\* The files the paths name.  "" is the path of a cancelled dialog and of a
\* construction without input_path.
ImageFiles == {"atlas.png", "small.png", "broken.png", "absent.png"}

\* os.path.exists
path_exists(path) == path \in ImageFiles \ {"absent.png"}

\* pygame.image.load(path).get_size(); None where load raises pygame.error.
loaded_size(path) ==
    IF path = "atlas.png" THEN <<TILESET_WIDTH, TILESET_HEIGHT>>
    ELSE IF path = "small.png" THEN <<1024, 256>>
    ELSE None

placeholder_image ==
    [source |-> "placeholder", size |-> <<TILESET_WIDTH, TILESET_HEIGHT>>,
     content |-> "gradient"]

\* create_base_tileset_image(input_path): the surface it returns and the
\* messages it passes to show_temp_message, in order.
create_base_tileset_image(input_path) ==
    IF input_path # "" /\ path_exists(input_path)
    THEN IF loaded_size(input_path) = None
         THEN [image |-> placeholder_image,
               messages |-> <<[level |-> "error", text |-> "Error loading",
                               about |-> <<input_path>>]>>]
         ELSE IF loaded_size(input_path) # <<TILESET_WIDTH, TILESET_HEIGHT>>
              THEN [image |-> [source |-> input_path,
                               size |-> <<TILESET_WIDTH, TILESET_HEIGHT>>,
                               content |-> "rescaled"],
                    messages |-> <<[level |-> "warning",
                                    text |-> "Warning: Image resized",
                                    about |-> <<input_path>>]>>]
              ELSE [image |-> [source |-> input_path,
                               size |-> <<TILESET_WIDTH, TILESET_HEIGHT>>,
                               content |-> "as loaded"],
                    messages |-> <<>>]
    ELSE [image |-> placeholder_image,
          messages |-> IF input_path # ""
                       THEN <<[level |-> "error", text |-> "File not found",
                               about |-> <<input_path>>]>>
                       ELSE <<>>]

\* self.temp_message after show_temp_message was called with each of msgs.
after_messages(current, msgs) ==
    IF msgs = <<>> THEN current ELSE msgs[Len(msgs)]

\* The viewport as it stands.
current_view ==
    [zoom |-> zoom, actual |-> actual_applied_zoom,
     ox |-> offset_x, oy |-> offset_y]

\* open_image_dialog resetting the view whether or not a file was chosen.
open_image_view_always_reset(file_path) ==
    [zoom |-> reset_view_result.zoom, actual |-> reset_view_result.actual,
     ox |-> reset_view_result.ox, oy |-> reset_view_result.oy]

\* The viewport open_image_dialog leaves: reset when a file was chosen
\* (lines 712-715), untouched when the dialog was cancelled.
open_image_view(file_path) ==
    IF file_path # "" THEN reset_view_result ELSE current_view

-----------------------------------------------------------------------------
(* The search dialog, src/TileScope.py lines 717-728.                      *)
(* The text typed is a sequence of one-character strings.                  *)

DigitChars == <<"0", "1", "2", "3", "4", "5", "6", "7", "8", "9">>

IsDigit(c) == \E i \in 1 .. 10 : DigitChars[i] = c

DigitValue(c) == (CHOOSE i \in 1 .. 10 : DigitChars[i] = c) - 1

RECURSIVE DigitsValue(_)
DigitsValue(s) ==
    IF s = <<>> THEN 0
    ELSE 10 * DigitsValue(SubSeq(s, 1, Len(s) - 1)) + DigitValue(s[Len(s)])

RECURSIVE Strip(_)
Strip(s) ==
    IF s = <<>> THEN s
    ELSE IF s[1] = " " THEN Strip(Tail(s))
    ELSE IF s[Len(s)] = " " THEN Strip(SubSeq(s, 1, Len(s) - 1))
    ELSE s

\* int(tile_id_str) for a text of spaces, signs, digits and other
\* characters: surrounding spaces dropped, an optional sign, then one or
\* more digits; anything else raises ValueError (ok = FALSE).
int_of_str(tile_id_str) ==
    LET t == Strip(tile_id_str)
        signed == t # <<>> /\ t[1] \in {"+", "-"}
        body == IF signed THEN Tail(t) ELSE t
    IN  IF body # <<>> /\ \A i \in 1 .. Len(body) : IsDigit(body[i])
        THEN [ok |-> TRUE,
              value |-> IF signed /\ t[1] = "-" THEN 0 - DigitsValue(body)
                        ELSE DigitsValue(body)]
        ELSE [ok |-> FALSE, value |-> 0]

\* activate_search_dialog reporting every outcome at level "info".
search_message_all_info(parsed, found) ==
    IF ~parsed.ok
    THEN [level |-> "info", text |-> "Invalid Tile ID format.", about |-> <<>>]
    ELSE IF found # None
         THEN [level |-> "info", text |-> "Found Tile ID",
               about |-> <<parsed.value>>]
         ELSE [level |-> "info", text |-> "Tile ID not found or invalid.",
               about |-> <<parsed.value>>]

\* The message activate_search_dialog shows (lines 723-728) for the parsed
\* text and the coordinate center_on_tile_id found, or None.
search_message(parsed, found) ==
    IF ~parsed.ok
    THEN [level |-> "error", text |-> "Invalid Tile ID format.", about |-> <<>>]
    ELSE IF found # None
         THEN [level |-> "info", text |-> "Found Tile ID",
               about |-> <<parsed.value>>]
         ELSE [level |-> "error", text |-> "Tile ID not found or invalid.",
               about |-> <<parsed.value>>]

-----------------------------------------------------------------------------
(* The export loop, src/TileScope.py lines 659-680.                        *)

\* The export going on to save when it sees QUIT.
export_step_pc_save_on_quit(n, events) ==
    IF n % 100 = 0 /\ "QUIT" \in events THEN "save"
    ELSE IF n = COLS * ROWS THEN "save"
    ELSE "numbers"

\* Where export_tileset_image stands after numbering its n-th tile with
\* events pending in the queue: every 100 tiles it drains the queue and
\* returns on QUIT; after the last tile it goes on to save.
export_step_pc(n, events) ==
    IF n % 100 = 0 /\ "QUIT" \in events THEN "aborted"
    ELSE IF n = COLS * ROWS THEN "save"
    ELSE "numbers"

-----------------------------------------------------------------------------
(* Bounds of the model and the inputs the events are drawn from.           *)

\* The event loop runs without end; a behaviour of the model handles at most
\* MaxEvents events, at most MaxZoomSteps of them zoom steps.
MaxEvents == 4
MaxZoomSteps == 2
IdSlack == 40     \* how far outside [0, TOTAL_TILES) the looked-up IDs go
MaxExports == 1   \* export runs in a behaviour of the export loop

\* Pointer positions: the middle of the tile area, its right edge, and a
\* point over the UI panel of the 1000 x 700 window.
MousePoints == {<<500, 300>>, <<999, 120>>, <<300, 650>>}

\* The sizes VIDEORESIZE events report (the first is below the minimum).
ResizeSizes == {<<500, 300>>, <<1280, 720>>}

\* The texts the search dialog returns: nothing (cancelled or left empty),
\* the grid's corner IDs, an inner tile, the two nearest IDs outside the
\* grid, and a text that is no integer.
SearchTexts == {<<>>, <<"0">>, <<"2", "3", "0", "4">>, <<"4", "0", "9", "5">>,
                <<"4", "0", "9", "6">>, <<"-", "1">>, <<"1", "x">>}

\* The IDs typed into the search dialog.
SearchIds == {int_of_str(t).value : t \in {u \in SearchTexts : int_of_str(u).ok}}

\* get_tile_from_id on each of them.
SearchResult == [id \in SearchIds |-> get_tile_from_id(id)]

WheelFactors == {Frac(11, 10), Frac(9, 10)}      \* lines 859-862
CenterFactors == {Frac(6, 5), Frac(5, 6)}        \* lines 203-204, 898-901

\* What the open dialog returns, and the input_path given to __init__.
OpenPaths == {"", "atlas.png", "small.png", "broken.png"}
InputPaths == {"", "small.png", "absent.png"}

\* What the save-as dialog of the export returns.
ExportPaths == {"", "tileset_export.png"}

\* The types of the events posted while an export is under way.
EventTypes == {"QUIT", "MOUSEMOTION"}

-----------------------------------------------------------------------------
(* Initial states.                                                         *)

GridIdle ==
    /\ call = "none"
    /\ arg_col = 0 /\ arg_row = 0 /\ tile_id_val = 0
    /\ arg_id = 0 /\ coords = None

\* What __init__ leaves in the message, toggle and export fields (lines
\* 165-175; the settings file gives the toggles their defaults).
FreshExtras ==
    /\ temp_message = NoMessage
    /\ show_grid = TRUE
    /\ show_numbers = TRUE
    /\ show_background_overlay = TRUE
    /\ export_requested = FALSE
    /\ show_export_progress = FALSE
    /\ export_progress = R(0)
    /\ export_pc = "idle"
    /\ processed_tiles = 0
    /\ save_calls = 0
    /\ saved_files = <<>>
    /\ event_queue = {}
    /\ visible_range = None
    /\ running = TRUE
    /\ settings_saved = 0

\* What __init__ leaves in the fields that no zoom step touches.
FreshFields ==
    /\ screen_width = 1000
    /\ screen_height = 700
    /\ show_ui_panel_flag = TRUE
    /\ dragging = FALSE
    /\ last_mouse_pos = <<0, 0>>
    /\ mouse_pos = <<0, 0>>
    /\ hover = None
    /\ selected_tiles = {}
    /\ budget = [events |-> MaxEvents, zooms |-> MaxZoomSteps]
    /\ FreshExtras

\* The render cache update_scaled_tileset_and_overlays builds at zoom z from
\* the empty cache of __init__ (lines 149, 184-186).
ScaledFor(z, base) ==
    /\ scaled_tileset_image = [source |-> base.source, size |-> scaled_size(z)]
    /\ tileset_area_overlay_surface = scaled_size(z)
    /\ cached_actual_zoom_for_overlays =
           overlay_cache(applied_zoom(z), R(-1), 0).zoom
    /\ cached_scaled_hover_surface = overlay_cache(applied_zoom(z), R(-1), 0).px
    /\ cached_scaled_select_surface = overlay_cache(applied_zoom(z), R(-1), 0).px
    /\ rebuild_work = rescale_work(applied_zoom(z), R(-1))

\* The state __init__(input_path) constructs (lines 131-214): the base image
\* from create_base_tileset_image (line 148), whose message line 173 then
\* overwrites with None; zoom 1.0, offsets 0.0 passed through
\* update_scaled_tileset_and_overlays and clamp_offset.
ConstructedFrom(input_path) ==
    /\ FreshFields
    /\ base_tileset_image = create_base_tileset_image(input_path).image
    /\ ScaledFor(R(1), create_base_tileset_image(input_path).image)
    /\ zoom = R(1)
    /\ actual_applied_zoom = applied_zoom(R(1))
    /\ offset_x = clamp_x(R(0), R(1), 1000)
    /\ offset_y = clamp_y(R(0), R(1), 700, TRUE)
    /\ last_event = "init"

\* The state TileScope() constructs, as __main__ does (line 1131).
Constructed == ConstructedFrom("")

\* The constructed window after the '-' key was pressed 17 times: each press
\* multiplies zoom by 1/1.2 about the view center, 1.2^-16 > 0.05 > 1.2^-17,
\* so the 17th press is clamped to min_zoom; the image is narrower and lower
\* than the view from the 4th press on, so clamp_offset centers it.  Every
\* press changes the effective zoom, so the overlay tiles are re-cached.
ZoomedOutFully ==
    /\ FreshFields
    /\ base_tileset_image = placeholder_image
    /\ ScaledFor(min_zoom, placeholder_image)
    /\ zoom = min_zoom
    /\ actual_applied_zoom = applied_zoom(min_zoom)
    /\ offset_x = clamp_x(R(0), min_zoom, 1000)
    /\ offset_y = clamp_y(R(0), min_zoom, 700, TRUE)
    /\ last_event = "zoom_center"

\* The constructed window after the '+' key was pressed 8 times: 1.2^7 < 4 <
\* 1.2^8, so the 8th press is clamped to max_zoom.  Every press keeps the
\* image point (500, 256) under the view center (500, 307.5): on x by the
\* anchoring, on y by the centering of the first press and the anchoring of
\* the later ones; no press is moved by the edge clamp.
ZoomedInFully ==
    /\ FreshFields
    /\ base_tileset_image = placeholder_image
    /\ ScaledFor(max_zoom, placeholder_image)
    /\ zoom = max_zoom
    /\ actual_applied_zoom = applied_zoom(max_zoom)
    /\ offset_x = R(-1500)
    /\ offset_y = Frac(-1433, 2)
    /\ last_event = "zoom_center"

Init ==
    /\ GridIdle
    /\ \/ \E input_path \in InputPaths : ConstructedFrom(input_path)
       \/ ZoomedOutFully
       \/ ZoomedInFully

-----------------------------------------------------------------------------
(* Events of handle_events, src/TileScope.py lines 810-910.                *)

SetView(v) ==
    /\ zoom' = v.zoom
    /\ actual_applied_zoom' = v.actual
    /\ offset_x' = v.ox
    /\ offset_y' = v.oy

\* update_scaled_tileset_and_overlays (lines 461-514) at zoom z with base
\* image base; a is the effective zoom it computes (lines 488-490).
Rescale(z, base, a) ==
    /\ scaled_tileset_image' = [source |-> base.source, size |-> scaled_size(z)]
    /\ tileset_area_overlay_surface' = scaled_tileset_image'.size
    /\ cached_actual_zoom_for_overlays' =
           overlay_cache(a, cached_actual_zoom_for_overlays,
                         cached_scaled_hover_surface).zoom
    /\ cached_scaled_hover_surface' =
           overlay_cache(a, cached_actual_zoom_for_overlays,
                         cached_scaled_hover_surface).px
    /\ cached_scaled_select_surface' =
           overlay_cache(a, cached_actual_zoom_for_overlays,
                         cached_scaled_select_surface).px
    /\ rebuild_work' = rescale_work(a, cached_actual_zoom_for_overlays)

\* What no event of handle_events touches.
idleVars == <<gridVars, exportVars, visible_range, loopVars>>

\* One more event handled.
Step ==
    /\ budget.events > 0
    /\ budget' = [budget EXCEPT !.events = @ - 1]

\* One more event handled, a zoom step.
ZoomStep ==
    /\ budget.events > 0 /\ budget.zooms > 0
    /\ budget' = [events |-> budget.events - 1, zooms |-> budget.zooms - 1]

InTileArea(pos) == pos[2] < screen_height - panel_height(show_ui_panel_flag)

\* VIDEORESIZE (lines 819-826): new size floored at 600 x 400, then
\* clamp_offset, then update_scaled_tileset_and_overlays.
VideoResize(w, h) ==
    LET sw == IF w < 600 THEN 600 ELSE w
        sh == IF h < 400 THEN 400 ELSE h
    IN  /\ Step
        /\ screen_width' = sw
        /\ screen_height' = sh
        /\ offset_x' = clamp_x(offset_x, zoom, sw)
        /\ offset_y' = clamp_y(offset_y, zoom, sh, show_ui_panel_flag)
        /\ actual_applied_zoom' = applied_zoom(zoom)
        /\ Rescale(zoom, base_tileset_image, actual_applied_zoom')
        /\ last_event' = "resize"
        /\ UNCHANGED <<zoom, show_ui_panel_flag, dragging, last_mouse_pos,
                       mouse_pos, hover, selected_tiles>>
        /\ UNCHANGED <<temp_message, base_tileset_image, idleVars>>

\* adjust_zoom_at_center (lines 555-559), from the '+' / '-' keys and the
\* zoom buttons.
ZoomAtCenter(factor) ==
    LET v == adjust_zoom_internal(factor, Frac(screen_width, 2),
                 Frac(view_height_of(screen_height, show_ui_panel_flag), 2))
    IN  /\ ZoomStep
        /\ SetView(v)
        /\ IF v.changed THEN Rescale(v.zoom, base_tileset_image, v.actual)
           ELSE UNCHANGED scaledVars
        /\ last_event' = "zoom_center"
        /\ UNCHANGED <<screen_width, screen_height, show_ui_panel_flag,
                       dragging, last_mouse_pos, mouse_pos, hover,
                       selected_tiles>>
        /\ UNCHANGED <<temp_message, base_tileset_image, idleVars>>

\* A mouse-wheel MOUSEBUTTONDOWN (buttons 4 and 5, lines 842-862) over the
\* tile area: adjust_zoom_at_mouse (lines 548-553) at the pointer.
MouseWheel(factor) ==
    LET v == adjust_zoom_internal(factor, R(mouse_pos[1]), R(mouse_pos[2]))
    IN  /\ ZoomStep
        /\ InTileArea(mouse_pos)
        /\ SetView(v)
        /\ IF v.changed THEN Rescale(v.zoom, base_tileset_image, v.actual)
           ELSE UNCHANGED scaledVars
        /\ last_event' = "wheel"
        /\ UNCHANGED <<screen_width, screen_height, show_ui_panel_flag,
                       dragging, last_mouse_pos, mouse_pos, hover,
                       selected_tiles>>
        /\ UNCHANGED <<temp_message, base_tileset_image, idleVars>>

\* reset_view (lines 690-700), from the 'r' key and the reset button.
ResetView ==
    /\ Step
    /\ SetView(reset_view_result)
    /\ Rescale(R(1), base_tileset_image, actual_applied_zoom')
    /\ last_event' = "reset"
    /\ UNCHANGED <<screen_width, screen_height, show_ui_panel_flag, dragging,
                   last_mouse_pos, mouse_pos, hover, selected_tiles>>
    /\ UNCHANGED <<temp_message, base_tileset_image, idleVars>>

\* open_image_dialog (lines 702-715): with a file chosen the base image is
\* replaced and the view reset; with the dialog cancelled nothing happens.
OpenImage(file_path) ==
    LET loaded == create_base_tileset_image(file_path)
    IN  /\ Step
        /\ SetView(open_image_view(file_path))
        /\ IF file_path # ""
           THEN /\ base_tileset_image' = loaded.image
                /\ temp_message' = after_messages(temp_message, loaded.messages)
                /\ Rescale(R(1), loaded.image, actual_applied_zoom')
                /\ last_event' = "open"
           ELSE /\ UNCHANGED <<base_tileset_image, temp_message, scaledVars>>
                /\ last_event' = "open_cancelled"
        /\ UNCHANGED <<screen_width, screen_height, show_ui_panel_flag,
                       dragging, last_mouse_pos, mouse_pos, hover,
                       selected_tiles>>
        /\ UNCHANGED idleVars

\* toggle_ui_panel_visibility (lines 586-596), from F1 and the hide button.
TogglePanel ==
    /\ Step
    /\ show_ui_panel_flag' = ~show_ui_panel_flag
    /\ offset_x' = clamp_x(offset_x, zoom, screen_width)
    /\ offset_y' = clamp_y(offset_y, zoom, screen_height, ~show_ui_panel_flag)
    /\ last_event' = "toggle_panel"
    /\ UNCHANGED <<zoom, actual_applied_zoom, screen_width, screen_height,
                   dragging, last_mouse_pos, mouse_pos, hover, selected_tiles>>
    /\ UNCHANGED <<temp_message, imageVars, idleVars>>

\* activate_search_dialog (lines 717-728) with the text the dialog returned,
\* and center_on_tile_id (lines 730-752).
Search(tile_id_str) ==
    LET parsed == int_of_str(tile_id_str)
        found == IF parsed.ok THEN SearchResult[parsed.value] ELSE None
    IN  /\ Step
        /\ IF tile_id_str = <<>>
           THEN /\ UNCHANGED <<selected_tiles, zoom, actual_applied_zoom,
                               offset_x, offset_y, scaledVars, temp_message>>
                /\ last_event' = "search_cancelled"
           ELSE IF found # None
           THEN /\ selected_tiles' = {found}
                /\ SetView(center_on_tile_result(found[1], found[2]))
                /\ Rescale(zoom', base_tileset_image, actual_applied_zoom')
                /\ temp_message' = search_message(parsed, found)
                /\ last_event' = "search_found"
           ELSE /\ UNCHANGED <<selected_tiles, zoom, actual_applied_zoom,
                               offset_x, offset_y, scaledVars>>
                /\ temp_message' = search_message(parsed, found)
                /\ last_event' = IF parsed.ok THEN "search_failed"
                                 ELSE "search_invalid"
        /\ UNCHANGED <<screen_width, screen_height, show_ui_panel_flag,
                       dragging, last_mouse_pos, mouse_pos, hover>>
        /\ UNCHANGED <<base_tileset_image, idleVars>>

\* request_export (line 599) followed, after the frame, by
\* export_tileset_image with the save-as dialog cancelled (lines 614-635)
\* and line 1125.  The export proper is followed step by step under
\* SpecExport.
ExportCancelled ==
    /\ Step
    /\ export_pc = "idle" /\ ~export_requested
    /\ export_progress' = R(0)
    /\ show_export_progress' = FALSE
    /\ export_requested' = FALSE
    /\ save_calls' = 0
    /\ last_event' = "export_cancelled"
    /\ UNCHANGED <<zoom, actual_applied_zoom, offset_x, offset_y, screen_width,
                   screen_height, show_ui_panel_flag, dragging, last_mouse_pos,
                   mouse_pos, hover, selected_tiles>>
    /\ UNCHANGED <<temp_message, imageVars, gridVars, visible_range, loopVars>>
    /\ UNCHANGED <<show_grid, show_numbers, show_background_overlay, export_pc,
                   processed_tiles, saved_files, event_queue>>

\* A left-button MOUSEBUTTONDOWN at the pointer (lines 842-858); toggle is
\* TRUE when shift or ctrl is held.  Over the panel the event changes
\* nothing, whether the UI consumed it or not.  last_event tells the second
\* of two toggle clicks in a row from the first.
MouseDown(toggle) ==
    /\ Step
    /\ IF InTileArea(mouse_pos)
       THEN /\ dragging' = TRUE
            /\ last_mouse_pos' = mouse_pos
            /\ selected_tiles' = click_selection(selected_tiles, tile_coords,
                                                 toggle)
            /\ last_event' = IF ~toggle THEN "click"
                             ELSE IF last_event = "click_toggle"
                                  THEN "click_toggle_again"
                                  ELSE "click_toggle"
       ELSE /\ UNCHANGED <<dragging, last_mouse_pos, selected_tiles>>
            /\ last_event' = "press_on_panel"
    /\ UNCHANGED <<zoom, actual_applied_zoom, offset_x, offset_y, screen_width,
                   screen_height, show_ui_panel_flag, mouse_pos, hover>>
    /\ UNCHANGED <<temp_message, imageVars, idleVars>>

\* A left-button MOUSEBUTTONUP (lines 864-866); the UI manager may consume
\* it only over its visible panel.
MouseUp(ui_consumed_event) ==
    /\ Step
    /\ ui_consumed_event => ~InTileArea(mouse_pos) /\ show_ui_panel_flag
    /\ dragging' = release_dragging(dragging, ui_consumed_event)
    /\ last_event' = IF ui_consumed_event THEN "release_consumed" ELSE "release"
    /\ UNCHANGED <<zoom, actual_applied_zoom, offset_x, offset_y, screen_width,
                   screen_height, show_ui_panel_flag, last_mouse_pos, mouse_pos,
                   hover, selected_tiles>>
    /\ UNCHANGED <<temp_message, imageVars, idleVars>>

\* MOUSEMOTION to pos (lines 870-891): pan while dragging, then the hover
\* tile from the new offsets.  last_event tells a pan that follows a release
\* the UI consumed from the others.
MouseMotion(pos) ==
    /\ Step
    /\ pos # mouse_pos
    /\ mouse_pos' = pos
    /\ IF dragging
       THEN /\ offset_x' = clamp_x(RAdd(offset_x, R(pos[1] - last_mouse_pos[1])),
                                   zoom, screen_width)
            /\ offset_y' = clamp_y(RAdd(offset_y, R(pos[2] - last_mouse_pos[2])),
                                   zoom, screen_height, show_ui_panel_flag)
            /\ last_mouse_pos' = pos
            /\ last_event' = IF last_event = "release_consumed"
                             THEN "drag_after_consumed_release"
                             ELSE "drag"
       ELSE /\ UNCHANGED <<offset_x, offset_y, last_mouse_pos>>
            /\ last_event' = "motion"
    /\ hover' = hover_at(pos, offset_x', offset_y')
    /\ UNCHANGED <<zoom, actual_applied_zoom, screen_width, screen_height,
                   show_ui_panel_flag, dragging, selected_tiles>>
    /\ UNCHANGED <<temp_message, imageVars, idleVars>>

Next ==
    \/ \E s \in ResizeSizes : VideoResize(s[1], s[2])
    \/ \E f \in CenterFactors : ZoomAtCenter(f)
    \/ \E f \in WheelFactors : MouseWheel(f)
    \/ ResetView
    \/ \E file_path \in OpenPaths : OpenImage(file_path)
    \/ TogglePanel
    \/ \E tile_id_str \in SearchTexts : Search(tile_id_str)
    \/ ExportCancelled
    \/ \E toggle \in BOOLEAN : MouseDown(toggle)
    \/ \E c \in BOOLEAN : MouseUp(c)
    \/ \E pos \in MousePoints : MouseMotion(pos)

Spec == Init /\ [][Next]_vars

-----------------------------------------------------------------------------
(* The addressing functions on their own: every grid coordinate and every  *)
(* ID from -IdSlack to TOTAL_TILES - 1 + IdSlack is passed to them, one    *)
(* call in a behaviour.                                                    *)

IdRange == (0 - IdSlack) .. (TOTAL_TILES - 1 + IdSlack)

GridInit == GridIdle /\ Constructed

\* What the addressing functions leave alone.
restVars == <<viewVars, temp_message, imageVars, exportVars, visible_range,
              loopVars>>

\* compute_tile_id(col, row)
ComputeTileId(col, row) ==
    /\ call = "none"
    /\ call' = "compute_tile_id"
    /\ arg_col' = col
    /\ arg_row' = row
    /\ tile_id_val' = compute_tile_id(col, row)
    /\ arg_id' = 0
    /\ coords' = None
    /\ UNCHANGED restVars

\* get_tile_from_id(tile_id)
GetTileFromId(tile_id) ==
    /\ call = "none"
    /\ call' = "get_tile_from_id"
    /\ arg_id' = tile_id
    /\ coords' = get_tile_from_id(tile_id)
    /\ arg_col' = 0
    /\ arg_row' = 0
    /\ tile_id_val' = 0
    /\ UNCHANGED restVars

\* get_tile_from_id(compute_tile_id(col, row))
RoundTrip(col, row) ==
    /\ call = "none"
    /\ call' = "round_trip"
    /\ arg_col' = col
    /\ arg_row' = row
    /\ tile_id_val' = compute_tile_id(col, row)
    /\ arg_id' = compute_tile_id(col, row)
    /\ coords' = get_tile_from_id(compute_tile_id(col, row))
    /\ UNCHANGED restVars

GridNext ==
    \/ \E p \in Grid : ComputeTileId(p[1], p[2])
    \/ \E id \in IdRange : GetTileFromId(id)
    \/ \E p \in Grid : RoundTrip(p[1], p[2])

SpecGrid == GridInit /\ [][GridNext]_vars

-----------------------------------------------------------------------------
(* clamp_offset on its own: it is applied twice to offsets, zoom, window   *)
(* size and panel visibility drawn from the sets below.                    *)

ClampZooms == {min_zoom, Frac(1, 4), R(1), Frac(6, 5), Frac(11, 5), max_zoom}
ClampScreens == {<<600, 400>>, <<1000, 700>>, <<2500, 1400>>}
ClampOffsets == {R(-9000), R(-1048), R(-524), Frac(-1, 2), R(0),
                 Frac(103, 2), R(700)}

ClampInit ==
    /\ GridIdle
    /\ FreshExtras
    /\ zoom \in ClampZooms
    /\ actual_applied_zoom = applied_zoom(zoom)
    /\ base_tileset_image = placeholder_image
    /\ ScaledFor(zoom, placeholder_image)
    /\ \E s \in ClampScreens : screen_width = s[1] /\ screen_height = s[2]
    /\ show_ui_panel_flag \in BOOLEAN
    /\ offset_x \in ClampOffsets
    /\ offset_y \in ClampOffsets
    /\ dragging = FALSE
    /\ last_mouse_pos = <<0, 0>>
    /\ mouse_pos = <<0, 0>>
    /\ hover = None
    /\ selected_tiles = {}
    /\ budget = [events |-> 2, zooms |-> 0]
    /\ last_event = "offsets_set"

\* clamp_offset (lines 516-531)
ClampOffset ==
    /\ Step
    /\ offset_x' = clamp_x(offset_x, zoom, screen_width)
    /\ offset_y' = clamp_y(offset_y, zoom, screen_height, show_ui_panel_flag)
    /\ last_event' = IF last_event = "offsets_set" THEN "clamp_offset"
                     ELSE "clamp_offset_again"
    /\ UNCHANGED <<zoom, actual_applied_zoom, screen_width, screen_height,
                   show_ui_panel_flag, dragging, last_mouse_pos, mouse_pos,
                   hover, selected_tiles>>
    /\ UNCHANGED <<temp_message, imageVars, idleVars>>

SpecClamp == ClampInit /\ [][ClampOffset]_vars

-----------------------------------------------------------------------------
(* get_visible_tile_range on its own: it is called on the viewports of     *)
(* ClampInit, clamped or not.                                              *)

\* get_visible_tile_range()
GetVisibleTileRange ==
    /\ visible_range' = get_visible_tile_range(offset_x, offset_y,
                            actual_applied_zoom, screen_width, screen_height,
                            show_ui_panel_flag)
    /\ UNCHANGED <<viewVars, gridVars, temp_message, imageVars, exportVars,
                   loopVars>>

RangeNext ==
    \/ ClampOffset
    \/ GetVisibleTileRange

SpecRange == ClampInit /\ [][RangeNext]_vars

-----------------------------------------------------------------------------
(* reset_view on its own: it is called in windows of the sizes below, with *)
(* the panel shown or hidden, whatever the zoom and the offsets were.      *)

\* Window sizes: the smallest, the constructed one, a resized one, two whose
\* view is as wide or as high as the image and one larger than the image.
ResetScreens == {<<600, 400>>, <<1000, 700>>, <<1280, 720>>, <<2048, 512>>,
                 <<2049, 597>>, <<2500, 1400>>}
ResetZooms == {min_zoom, R(1), Frac(6, 5), max_zoom}
ResetOffsets == {R(-9000), R(0), R(700)}

ResetInit ==
    /\ GridIdle
    /\ FreshExtras
    /\ zoom \in ResetZooms
    /\ actual_applied_zoom = applied_zoom(zoom)
    /\ base_tileset_image = placeholder_image
    /\ ScaledFor(zoom, placeholder_image)
    /\ \E s \in ResetScreens : screen_width = s[1] /\ screen_height = s[2]
    /\ show_ui_panel_flag \in BOOLEAN
    /\ offset_x \in ResetOffsets
    /\ offset_y \in ResetOffsets
    /\ dragging = FALSE
    /\ last_mouse_pos = <<0, 0>>
    /\ mouse_pos = <<0, 0>>
    /\ hover = None
    /\ selected_tiles = {}
    /\ budget = [events |-> 1, zooms |-> 0]
    /\ last_event = "offsets_set"

SpecReset == ResetInit /\ [][ResetView]_vars

-----------------------------------------------------------------------------
(* The export, src/TileScope.py lines 598-599, 614-688 and 1123-1125,      *)
(* followed tile by tile, with events posted to the queue while it runs.   *)

viewportVars == <<zoom, actual_applied_zoom, offset_x, offset_y, screen_width,
                  screen_height, show_ui_panel_flag, dragging, last_mouse_pos,
                  mouse_pos, hover, selected_tiles>>

\* What the export leaves alone.
exportFrame == <<viewportVars, gridVars, imageVars, visible_range, loopVars>>

ExportInit == GridIdle /\ Constructed

\* toggle_grid (lines 561-568)
ToggleGrid ==
    /\ running /\ export_pc = "idle" /\ ~export_requested
    /\ show_grid' = ~show_grid
    /\ last_event' = "toggle_grid"
    /\ UNCHANGED <<show_numbers, show_background_overlay, export_requested,
                   show_export_progress, export_progress, export_pc,
                   processed_tiles, save_calls, saved_files, event_queue>>
    /\ UNCHANGED <<exportFrame, temp_message, budget>>

\* toggle_numbers (lines 570-576)
ToggleNumbers ==
    /\ running /\ export_pc = "idle" /\ ~export_requested
    /\ show_numbers' = ~show_numbers
    /\ last_event' = "toggle_numbers"
    /\ UNCHANGED <<show_grid, show_background_overlay, export_requested,
                   show_export_progress, export_progress, export_pc,
                   processed_tiles, save_calls, saved_files, event_queue>>
    /\ UNCHANGED <<exportFrame, temp_message, budget>>

\* toggle_background_overlay (lines 578-584)
ToggleBackgroundOverlay ==
    /\ running /\ export_pc = "idle" /\ ~export_requested
    /\ show_background_overlay' = ~show_background_overlay
    /\ last_event' = "toggle_background_overlay"
    /\ UNCHANGED <<show_grid, show_numbers, export_requested,
                   show_export_progress, export_progress, export_pc,
                   processed_tiles, save_calls, saved_files, event_queue>>
    /\ UNCHANGED <<exportFrame, temp_message, budget>>

\* request_export (lines 598-599), at most MaxExports times.
RequestExport ==
    /\ running /\ export_pc = "idle" /\ ~export_requested
    /\ MaxEvents - budget.events < MaxExports
    /\ Step
    /\ export_requested' = TRUE
    /\ last_event' = "export_requested"
    /\ UNCHANGED <<show_grid, show_numbers, show_background_overlay,
                   show_export_progress, export_progress, export_pc,
                   processed_tiles, save_calls, saved_files, event_queue>>
    /\ UNCHANGED <<exportFrame, temp_message>>

\* An event arrives in pygame's queue while export_tileset_image is
\* rendering, its dialog answered (nothing else reads the queue then).
PostEvent(type) ==
    /\ export_requested /\ export_pc # "idle"
    /\ type \notin event_queue
    /\ event_queue' = event_queue \cup {type}
    /\ UNCHANGED <<show_grid, show_numbers, show_background_overlay,
                   export_requested, show_export_progress, export_progress,
                   export_pc, processed_tiles, save_calls, saved_files>>
    /\ UNCHANGED <<exportFrame, temp_message, budget, last_event>>

\* export_tileset_image up to its numbering loop (lines 614-661): the
\* save-as dialog returns file_path; cancelled, the export returns (and line
\* 1125 clears the request); otherwise the base image, the dimming overlay
\* of every tile and the grid lines are drawn, none of which reads the queue.
ExportBegin(file_path) ==
    /\ export_requested /\ export_pc = "idle"
    /\ export_progress' = R(0)
    /\ processed_tiles' = 0
    /\ save_calls' = 0
    /\ IF file_path = ""
       THEN /\ show_export_progress' = FALSE
            /\ export_requested' = FALSE
            /\ export_pc' = "idle"
            /\ last_event' = "export_cancelled"
       ELSE /\ show_export_progress' = TRUE
            /\ export_requested' = TRUE
            /\ export_pc' = IF show_numbers THEN "numbers" ELSE "save"
            /\ last_event' = "export_rendering"
    /\ UNCHANGED <<show_grid, show_numbers, show_background_overlay,
                   saved_files, event_queue>>
    /\ UNCHANGED <<exportFrame, temp_message, budget>>

\* One pass of the numbering loop (lines 662-680): a tile is numbered; after
\* every 100th the progress is set and drawn and the queue is drained, and
\* QUIT among the drained events ends the export without saving.
NumberTile ==
    LET n == processed_tiles + 1
        pc == export_step_pc(n, event_queue)
    IN  /\ export_pc = "numbers"
        /\ processed_tiles' = n
        /\ export_progress' = IF n % 100 = 0 THEN Frac(n, COLS * ROWS)
                              ELSE export_progress
        /\ event_queue' = IF n % 100 = 0 THEN {} ELSE event_queue
        /\ IF pc = "aborted"
           THEN /\ show_export_progress' = FALSE
                /\ export_requested' = FALSE
                /\ export_pc' = "idle"
                /\ last_event' = "export_aborted"
           ELSE /\ export_pc' = pc
                /\ last_event' = "export_tile"
                /\ UNCHANGED <<show_export_progress, export_requested>>
        /\ UNCHANGED <<show_grid, show_numbers, show_background_overlay,
                       save_calls, saved_files>>
        /\ UNCHANGED <<exportFrame, temp_message, budget>>

\* pygame.image.save and the end of the export (lines 681-688, 1125); ok is
\* FALSE when save raises pygame.error.
Save(ok) ==
    /\ export_pc = "save"
    /\ save_calls' = save_calls + 1
    /\ saved_files' = IF ok
                      THEN Append(saved_files,
                                  [numbers |-> show_numbers,
                                   numbered |-> IF show_numbers
                                                THEN processed_tiles ELSE 0,
                                   overlay |-> show_background_overlay,
                                   grid |-> show_grid])
                      ELSE saved_files
    /\ temp_message' = IF ok
                       THEN [level |-> "success", text |-> "Exported to",
                             about |-> <<"tileset_export.png">>]
                       ELSE [level |-> "error", text |-> "Error saving",
                             about |-> <<>>]
    /\ show_export_progress' = FALSE
    /\ export_requested' = FALSE
    /\ export_pc' = "idle"
    /\ last_event' = IF ok THEN "export_saved" ELSE "export_save_failed"
    /\ UNCHANGED <<show_grid, show_numbers, show_background_overlay,
                   export_progress, processed_tiles, event_queue>>
    /\ UNCHANGED <<exportFrame, budget>>

\* handle_events at the top of the next frame (lines 810-817, 870-891) and
\* the end of run() (lines 1107-1108, 1127): pygame.event.get() takes every
\* pending event; QUIT saves the settings and ends the main loop, after which
\* run() saves them once more; a MOUSEMOTION event, which reports the
\* pointer where it is, recomputes the hover tile.
HandleEvents ==
    /\ running /\ export_pc = "idle" /\ ~export_requested
    /\ event_queue # {}
    /\ event_queue' = {}
    /\ IF "QUIT" \in event_queue
       THEN /\ running' = FALSE
            /\ settings_saved' = settings_saved + 2
            /\ last_event' = "quit"
       ELSE /\ UNCHANGED loopVars
            /\ last_event' = "events_handled"
    /\ hover' = IF "MOUSEMOTION" \in event_queue
                THEN hover_at(mouse_pos, offset_x, offset_y)
                ELSE hover
    /\ UNCHANGED <<zoom, actual_applied_zoom, offset_x, offset_y, screen_width,
                   screen_height, show_ui_panel_flag, dragging, last_mouse_pos,
                   mouse_pos, selected_tiles>>
    /\ UNCHANGED <<show_grid, show_numbers, show_background_overlay,
                   export_requested, show_export_progress, export_progress,
                   export_pc, processed_tiles, save_calls, saved_files>>
    /\ UNCHANGED <<gridVars, imageVars, visible_range, temp_message, budget>>

ExportNext ==
    \/ ToggleGrid
    \/ ToggleNumbers
    \/ ToggleBackgroundOverlay
    \/ RequestExport
    \/ \E type \in EventTypes : PostEvent(type)
    \/ \E file_path \in ExportPaths : ExportBegin(file_path)
    \/ NumberTile
    \/ \E ok \in BOOLEAN : Save(ok)
    \/ HandleEvents

SpecExport == ExportInit /\ [][ExportNext]_vars

-----------------------------------------------------------------------------
(* Claims about the addressing functions, checked under SpecGrid.          *)

\* C1: get_tile_from_id(compute_tile_id(col, row)) returns exactly
\* (col, row) for every coordinate of the 128 x 32 grid.
C1_RoundTrip ==
    call = "round_trip" => coords = <<arg_col, arg_row>>

C1_Witness ==
    /\ call = "round_trip"
    /\ arg_col = COLS - 1 /\ arg_row = ROWS - 1
    /\ coords = <<COLS - 1, ROWS - 1>>

\* C2: on the grid compute_tile_id is a bijection onto [0, TOTAL_TILES):
\* the ID of a coordinate lies in the range and no other coordinate has it,
\* and every ID of the range is the ID of some coordinate.
C2_Bijection ==
    /\ call = "compute_tile_id" =>
          /\ 0 <= tile_id_val /\ tile_id_val < TOTAL_TILES
          /\ \A p \in Grid : compute_tile_id(p[1], p[2]) = tile_id_val
                                => p = <<arg_col, arg_row>>
    /\ call = "get_tile_from_id" /\ 0 <= arg_id /\ arg_id < TOTAL_TILES =>
          \E p \in Grid : compute_tile_id(p[1], p[2]) = arg_id

C2_Witness ==
    /\ call = "compute_tile_id"
    /\ arg_col = 16 /\ arg_row = ROWS - 1
    /\ tile_id_val = 1008

\* C3 as claimed: whenever the reference atlas is addressed, its total
\* number of tiles is 8192.
C3_TotalTilesAsClaimed == call # "none" => TOTAL_TILES = 8192

\* C3 as amended: the 2048 x 512 atlas of 16 x 16 tiles has 128 columns and
\* 32 rows, so totalTiles = cols * rows is 4096.
C3_TotalTiles ==
    /\ COLS = 128
    /\ ROWS = 32
    /\ TOTAL_TILES = 4096
    /\ call = "get_tile_from_id" /\ coords # None => arg_id < 4096

C3_Witness ==
    /\ call = "get_tile_from_id"
    /\ arg_id = 4095
    /\ coords = <<127, 31>>

\* C4: get_tile_from_id returns None for every id < 0 and every
\* id >= TOTAL_TILES, and a grid coordinate for every id in between.
C4_LookupRange ==
    call = "get_tile_from_id" =>
        IF arg_id < 0 \/ arg_id >= TOTAL_TILES
        THEN coords = None
        ELSE coords \in Grid

C4_Witness ==
    /\ call = "get_tile_from_id"
    /\ arg_id = TOTAL_TILES
    /\ coords = None

\* C5: compute_tile_id(col, row) = (col mod 16) + (col div 16) * 512 +
\* row * 16 on the grid; (0,0) -> 0, (15,0) -> 15, (16,0) -> 512, (0,1) -> 16.
C5_Formula ==
    call = "compute_tile_id" =>
        /\ tile_id_val = (arg_col % 16) + (arg_col \div 16) * 512 + arg_row * 16
        /\ arg_col = 0 /\ arg_row = 0 => tile_id_val = 0
        /\ arg_col = 15 /\ arg_row = 0 => tile_id_val = 15
        /\ arg_col = 16 /\ arg_row = 0 => tile_id_val = 512
        /\ arg_col = 0 /\ arg_row = 1 => tile_id_val = 16

C5_Witness ==
    /\ call = "compute_tile_id"
    /\ arg_col = 16 /\ arg_row = 0
    /\ tile_id_val = 512

-----------------------------------------------------------------------------
(* Claims about the viewport and the selection.                            *)

\* C6: after any sequence of zoom-changing events, min_zoom <= zoom <=
\* max_zoom, and the effective zoom times the image width and times the
\* image height is at most 8192.
C6_ZoomBounds ==
    /\ RLe(min_zoom, zoom)
    /\ RLe(zoom, max_zoom)
    /\ RLe(RMul(actual_applied_zoom, R(TILESET_WIDTH)), R(MAX_SURFACE_DIM))
    /\ RLe(RMul(actual_applied_zoom, R(TILESET_HEIGHT)), R(MAX_SURFACE_DIM))

\* A wheel-up step that the zoom clamp cut down to max_zoom.
C6_Witness ==
    /\ last_event = "wheel"
    /\ zoom = max_zoom
    /\ budget.events = MaxEvents - 2

\* The image coordinate under the screen coordinate s on one axis.
image_coord(s, off, a) == RDiv(RSub(R(s), off), a)

\* C7: over every zoom-at-point call at the pointer, the image coordinate
\* under the pointer, (screen - offset) / effectiveZoom, changes by less than
\* 0.5 image pixels on each axis.
C7_Anchoring ==
    [][last_event' = "wheel" =>
          /\ RLt(RAbs(RSub(image_coord(mouse_pos[1], offset_x', actual_applied_zoom'),
                           image_coord(mouse_pos[1], offset_x, actual_applied_zoom))),
                 Frac(1, 2))
          /\ RLt(RAbs(RSub(image_coord(mouse_pos[2], offset_y', actual_applied_zoom'),
                           image_coord(mouse_pos[2], offset_y, actual_applied_zoom))),
                 Frac(1, 2))]_vars

\* C8: clamp_offset applied a second time leaves the offsets the first
\* application produced, whatever the zoom, window size, panel visibility
\* and starting offsets.
C8_ClampIdempotent ==
    [][last_event' = "clamp_offset_again" =>
          offset_x' = offset_x /\ offset_y' = offset_y]_vars

\* Two applications, the first of which moved the offset to the right edge.
C8_Witness ==
    /\ last_event = "clamp_offset_again"
    /\ zoom = R(1) /\ screen_width = 1000
    /\ offset_x = R(-1048)

\* C9 as claimed: in the 1000 x 700 window with the 85-pixel panel, reset
\* leaves offsetX = 1000 - 2048 = -1048 and offsetY = (615 - 512) / 2 = 51.5.
C9_ResetAsClaimed ==
    last_event = "reset" /\ screen_width = 1000 /\ screen_height = 700
                         /\ show_ui_panel_flag
        => zoom = R(1) /\ offset_x = R(-1048) /\ offset_y = Frac(103, 2)

\* C9 as amended: there reset leaves offsetX = (1000 - 2048) / 2 = -524 and
\* offsetY = (615 - 512) / 2 = 51.5, at zoom 1.0.
C9_Reset ==
    last_event = "reset" /\ screen_width = 1000 /\ screen_height = 700
                         /\ show_ui_panel_flag
        => zoom = R(1) /\ offset_x = R(-524) /\ offset_y = Frac(103, 2)

C9_Witness ==
    /\ last_event = "reset"
    /\ screen_width = 1000 /\ screen_height = 700 /\ show_ui_panel_flag
    /\ offset_x = R(-524)
    /\ budget.events < MaxEvents - 1

\* C10: a click on the hover tile with shift or ctrl held, followed by a
\* second such click on the same tile, leaves the selection as it was before
\* the first.
C10_ToggleTwice ==
    [][last_event' \in {"click_toggle", "click_toggle_again"} =>
          click_selection(selected_tiles', hover', TRUE) = selected_tiles]_vars

\* The second of two toggle clicks on a hovered tile, which took the tile out
\* of the selection again.
C10_Witness ==
    /\ last_event = "click_toggle_again"
    /\ hover # None
    /\ selected_tiles = {}
    /\ dragging

-----------------------------------------------------------------------------
(* Claims about the visible range and the clamped offsets.                 *)

\* C11: for any viewport state, also one whose offsets place the view
\* entirely outside the image, get_visible_tile_range returns start_col and
\* end_col within 0 .. COLS and start_row and end_row within 0 .. ROWS.
C11_RangeInGrid ==
    visible_range # None =>
        /\ 0 <= visible_range[1] /\ visible_range[1] <= COLS
        /\ 0 <= visible_range[2] /\ visible_range[2] <= COLS
        /\ 0 <= visible_range[3] /\ visible_range[3] <= ROWS
        /\ 0 <= visible_range[4] /\ visible_range[4] <= ROWS

\* C12: after every event the offsets are a fixed point of clamp_offset: on
\* each axis the image is centered if its scaled size (the image size times
\* zoom) is smaller than the view, and otherwise view - scaled <= offset <= 0.
C12_OffsetsClamped ==
    LET view_w == R(screen_width)
        view_h == R(screen_height - (IF show_ui_panel_flag THEN PANEL_HEIGHT ELSE 0))
        scaled_w == RMul(R(TILESET_WIDTH), zoom)
        scaled_h == RMul(R(TILESET_HEIGHT), zoom)
    IN  /\ IF RLt(scaled_w, view_w)
           THEN RAdd(offset_x, offset_x) = RSub(view_w, scaled_w)
           ELSE RLe(RSub(view_w, scaled_w), offset_x) /\ RLe(offset_x, R(0))
        /\ IF RLt(scaled_h, view_h)
           THEN RAdd(offset_y, offset_y) = RSub(view_h, scaled_h)
           ELSE RLe(RSub(view_h, scaled_h), offset_y) /\ RLe(offset_y, R(0))

\* A drag 499 pixels to the right that the clamp held at the image's left
\* edge, and 180 pixels up that left the lower image centered.
C12_Witness ==
    /\ last_event = "drag"
    /\ mouse_pos = <<999, 120>>
    /\ zoom = R(1)
    /\ offset_x = R(0)
    /\ offset_y = Frac(103, 2)

-----------------------------------------------------------------------------
(* Claims about the search.                                                *)

\* C13: a search that finds its tile replaces the selection with exactly the
\* one tile whose ID was typed and sets zoom to max(previous zoom, 2.0).
C13_SearchSelects ==
    [][last_event' = "search_found" =>
          /\ Len(temp_message'.about) = 1
          /\ temp_message'.about[1] \in 0 .. TOTAL_TILES - 1
          /\ Cardinality(selected_tiles') = 1
          /\ \A p \in selected_tiles' :
                p \in Grid /\ compute_tile_id(p[1], p[2]) = temp_message'.about[1]
          /\ zoom' = RMax(zoom, R(2))]_vars

\* The last tile found from the fully zoomed-in window: the zoom stays 4.0.
C13_Witness ==
    /\ last_event = "search_found"
    /\ selected_tiles = {<<COLS - 1, ROWS - 1>>}
    /\ zoom = max_zoom

\* C14: a search that fails (ID out of range, or a text that is no integer)
\* leaves selection, zoom, effective zoom, offsets, base image and render
\* cache as they were and shows a message of level "error".
C14_FailedSearch ==
    [][last_event' \in {"search_failed", "search_invalid"} =>
          /\ UNCHANGED <<selected_tiles, zoom, actual_applied_zoom, offset_x,
                         offset_y, imageVars>>
          /\ temp_message'.level = "error"]_vars

\* ID 4096 searched while a tile is selected.
C14_Witness ==
    /\ last_event = "search_failed"
    /\ temp_message = [level |-> "error", text |-> "Tile ID not found or invalid.",
                       about |-> <<TOTAL_TILES>>]
    /\ selected_tiles # {}

-----------------------------------------------------------------------------
(* Claims about the export, checked under SpecExport.                      *)

\* C15: an export run is all or nothing: save is called at most once, and
\* only when every tile was processed; a run that saw QUIT ends without
\* having called save; every file written holds all the tiles' numbers.
C15_AllOrNothing ==
    /\ save_calls <= 1
    /\ export_pc = "save" /\ show_numbers => processed_tiles = COLS * ROWS
    /\ \A i \in 1 .. Len(saved_files) :
          saved_files[i].numbers => saved_files[i].numbered = COLS * ROWS
    /\ last_event = "export_aborted" => save_calls = 0 /\ export_pc = "idle"
    /\ last_event \in {"export_saved", "export_save_failed"} => save_calls = 1
    /\ last_event = "export_saved" => saved_files # <<>>

\* An export that saw QUIT at its last drain, after 4000 tiles.
C15_Witness ==
    /\ last_event = "export_aborted"
    /\ processed_tiles = 4000
    /\ save_calls = 0
    /\ saved_files = <<>>

\* C16: in every export run that reached rendering, whatever the toggles,
\* the progress shown is processed / total as of the last full hundred of
\* tiles: while tiles are processed it is 100 * (processed div 100) / total,
\* and when the image is about to be saved all but the last 96 of the 4096
\* tiles have been reported.
C16_ProgressEveryHundred ==
    /\ export_pc = "numbers" =>
          export_progress = Frac(100 * (processed_tiles \div 100), COLS * ROWS)
    /\ export_pc = "save" =>
          export_progress = Frac(100 * ((COLS * ROWS) \div 100), COLS * ROWS)

-----------------------------------------------------------------------------
(* Claims about the dialogs, the render cache and image loading.           *)

\* C17: a cancelled open-image, save-as or search dialog leaves zoom,
\* effective zoom, offsets, selection, base image and render cache as they
\* were.
C17_CancelledDialog ==
    [][last_event' \in {"open_cancelled", "search_cancelled", "export_cancelled"}
          => UNCHANGED <<zoom, actual_applied_zoom, offset_x, offset_y,
                         selected_tiles, imageVars>>]_vars

\* The open dialog cancelled in the fully zoomed-in window.
C17_Witness ==
    /\ last_event = "open_cancelled"
    /\ zoom = max_zoom
    /\ offset_x = R(-1500)

\* C18: after every event the scaled base image, built from the current base
\* image, and the dimming overlay have the size derived from the current
\* zoom, the overlay tiles were cached for the current effective zoom (within
\* 1e-6) and are round(16 * effective zoom) pixels wide.
C18_CacheFresh ==
    LET size == <<RInt(RMul(R(TILESET_WIDTH), zoom)),
                  RInt(RMul(R(TILESET_HEIGHT), zoom))>>
    IN  /\ scaled_tileset_image.source = base_tileset_image.source
        /\ scaled_tileset_image.size = size
        /\ tileset_area_overlay_surface = size
        /\ RLt(RAbs(RSub(cached_actual_zoom_for_overlays, actual_applied_zoom)),
               EPS6)
        /\ cached_scaled_hover_surface = RRound(RMul(R(16), actual_applied_zoom))
        /\ cached_scaled_select_surface = RRound(RMul(R(16), actual_applied_zoom))

\* A wheel step from zoom 1.0 to 1.1 taken on an image loaded by the dialog:
\* the overlay tiles went from 16 to 18 pixels.
C18_Witness ==
    /\ last_event = "wheel"
    /\ zoom = Frac(11, 10)
    /\ base_tileset_image.source = "small.png"
    /\ cached_scaled_hover_surface = 18

\* C19: once an image whose size is not 2048 x 512 was loaded, by __init__
\* from input_path or by the open dialog, the base image is 2048 x 512 and a
\* message of level "warning" is pending in temp_message.
C19_WarnedOnRescale ==
    /\ last_event \in {"init", "open"}
    /\ base_tileset_image.source \in ImageFiles
    /\ loaded_size(base_tileset_image.source) # None
    /\ loaded_size(base_tileset_image.source) # <<2048, 512>>
    => /\ base_tileset_image.size = <<2048, 512>>
       /\ temp_message.level = "warning"

\* The tile midpoint (index + 0.5) * 16 * a on one axis of the scaled image.
tile_midpoint(index, a) == RMul(R((2 * index + 1) * 8), a)

nearest_allowed(want, view, scaled) ==
    IF RLt(scaled, view) THEN RDiv(RSub(view, scaled), R(2))
    ELSE IF RLt(R(0), want) THEN R(0)
    ELSE IF RLt(want, RSub(view, scaled)) THEN RSub(view, scaled)
    ELSE want

-----------------------------------------------------------------------------
(* Claims about the rendered image and the rebuild, checked under Spec.    *)

\* The image draw_main_content blits (lines 1088-1089) covers the view on an
\* axis: it is blitted at round(off) and is size pixels long, the view is
\* view pixels long.
covers_view(off, size, view) ==
    RRound(off) <= 0 /\ RRound(off) + size >= view

\* C21: in every reachable state, on each axis where the scaled image is at
\* least as large as the view, the image blitted at round(offset) covers the
\* whole view: round(offset) <= 0 and round(offset) + renderedSize >=
\* viewSize.
C21_ViewCovered ==
    LET w == scaled_tileset_image.size[1]
        h == scaled_tileset_image.size[2]
        vh == view_height_of(screen_height, show_ui_panel_flag)
    IN  /\ w >= screen_width => covers_view(offset_x, w, screen_width)
        /\ h >= vh => covers_view(offset_y, h, vh)

\* C22: the scaled base image is round(2048 * effectiveZoom) wide and
\* round(512 * effectiveZoom) high, each at least 1, effectiveZoom being the
\* actual_applied_zoom the same rebuild recorded.
C22_ScaledSize ==
    scaled_tileset_image.size =
        <<Max(1, RRound(RMul(R(TILESET_WIDTH), actual_applied_zoom))),
          Max(1, RRound(RMul(R(TILESET_HEIGHT), actual_applied_zoom)))>>

\* C23: a call of update_scaled_tileset_and_overlays with zoom and base image
\* unchanged since the last call (the call a VIDEORESIZE event makes) leaves
\* the cached artifacts identical and does no rescale work: neither the base
\* image, nor the dimming overlay, nor the hover / select tiles are rebuilt.
C23_RebuildSkipped ==
    [][last_event' = "resize"
         => /\ UNCHANGED <<scaled_tileset_image, tileset_area_overlay_surface,
                           cached_actual_zoom_for_overlays,
                           cached_scaled_hover_surface,
                           cached_scaled_select_surface>>
            /\ rebuild_work' = [base |-> FALSE, overlay |-> FALSE,
                                tiles |-> FALSE]]_vars

-----------------------------------------------------------------------------
(* Claims about clicks, drags and the hover tile, checked under Spec.      *)

\* C24: a left click in the tile area on the hovered tile t, not consumed by
\* the UI, without shift / ctrl sets the selection to exactly {t} whatever it
\* was; with shift or ctrl it flips the membership of t and leaves the
\* membership of every other tile as it was.
C24_ClickSemantics ==
    [][last_event' \in {"click", "click_toggle", "click_toggle_again"}
       /\ hover # None
         => IF last_event' = "click"
            THEN selected_tiles' = {hover}
            ELSE /\ (hover \in selected_tiles') # (hover \in selected_tiles)
                 /\ selected_tiles' \ {hover} = selected_tiles \ {hover}]_vars

\* A click with shift / ctrl that added the hovered tile to a selection of
\* one other tile, which stayed selected.
C24_Witness ==
    /\ last_event = "click_toggle"
    /\ hover # None
    /\ hover \in selected_tiles
    /\ Cardinality(selected_tiles) = 2

-----------------------------------------------------------------------------
(* Claims about reset_view, checked under SpecReset.                       *)

\* C25: after reset_view, for every window size (width >= 600, height >=
\* 400) and either panel visibility, zoom = 1.0, effective zoom = 1.0 and the
\* image is centered on both axes, offset_x = (screen_width - 2048) / 2 and
\* offset_y = (view_height - 512) / 2, also when the image is larger than the
\* view: the clamp that ends reset_view does not move these offsets.
C25_ResetCentered ==
    last_event = "reset"
        => /\ zoom = R(1)
           /\ actual_applied_zoom = R(1)
           /\ offset_x = Frac(screen_width - TILESET_WIDTH, 2)
           /\ offset_y = Frac(view_height_of(screen_height, show_ui_panel_flag)
                                  - TILESET_HEIGHT, 2)

\* reset_view in the 600 x 400 window with the panel shown: the image is
\* larger than the 600 x 315 view on both axes.
C25_Witness ==
    /\ last_event = "reset"
    /\ screen_width = 600 /\ screen_height = 400 /\ show_ui_panel_flag
    /\ offset_x = R(-724)
    /\ offset_y = Frac(-197, 2)

\* C26: a zoom step (at the view center or at the pointer) whose clamped
\* result differs from the current zoom by less than 1e-6, such as zooming in
\* at max_zoom or out at min_zoom, changes nothing: zoom, effective zoom,
\* both offsets and every cached surface stay as they were, and nothing is
\* rescaled.
C26_ZoomNoOp ==
    [][\A f \in CenterFactors \cup WheelFactors :
         /\ ZoomAtCenter(f) \/ MouseWheel(f)
         /\ RLt(RAbs(RSub(clamp_zoom(RMul(zoom, f)), zoom)), EPS6)
         => UNCHANGED <<zoom, actual_applied_zoom, offset_x, offset_y,
                        scaledVars>>]_vars

\* The state after one zoom-in step taken at max_zoom: the step was counted
\* and the zoom is still max_zoom.
C26_Witness ==
    /\ last_event \in {"zoom_center", "wheel"}
    /\ zoom = max_zoom
    /\ budget.events = MaxEvents - 1
    /\ budget.zooms = MaxZoomSteps - 1
    /\ offset_x = R(-1500)

-----------------------------------------------------------------------------
(* Claims about events that arrive during an export, checked under         *)
(* SpecExport.                                                             *)

\* C28: a QUIT event that is pending while an export runs is consumed by the
\* export's own drain: the export ends aborted, with the progress bar hidden,
\* the queue emptied and nothing saved; the event never reaches
\* handle_events, so the main loop keeps running and the settings are not
\* saved.
C28_QuitConsumed ==
    [][/\ "QUIT" \in event_queue /\ export_pc # "idle" /\ export_pc' = "idle"
            => /\ last_event' = "export_aborted"
               /\ ~show_export_progress'
               /\ event_queue' = {}
               /\ saved_files' = saved_files
       /\ running'
       /\ settings_saved' = 0]_vars

\* C29: only mouse-motion events recompute the hover tile: zoom at center,
\* reset, search-and-center, resize and panel toggle (and every other event)
\* leave it as it was; a left click in the tile area selects the stored hover
\* tile, not the tile under the pointer in the current view; and the hover
\* tile is always either None or a coordinate of the grid.
C29_HoverByMotionOnly ==
    [][/\ hover' # hover
            => last_event' \in {"motion", "drag", "drag_after_consumed_release"}
       /\ last_event' \in {"zoom_center", "reset", "search_found", "resize",
                           "toggle_panel"}
            => hover' = hover
       /\ last_event' \in {"click", "click_toggle", "click_toggle_again"}
            => selected_tiles' =
                   IF hover = None THEN selected_tiles
                   ELSE IF last_event' = "click" THEN {hover}
                   ELSE IF hover \in selected_tiles
                        THEN selected_tiles \ {hover}
                        ELSE selected_tiles \cup {hover}
       /\ \/ hover' = None
          \/ /\ hover'[1] \in 0 .. COLS - 1
             /\ hover'[2] \in 0 .. ROWS - 1]_vars

\* A click that selected the stored hover tile after the view had moved under
\* the resting pointer: the tile under the pointer is another one (or none).
C29_Witness ==
    /\ last_event = "click"
    /\ hover # None
    /\ selected_tiles = {hover}
    /\ hover_at(mouse_pos, offset_x, offset_y) # hover

-----------------------------------------------------------------------------
(* Claims about the effective zoom, checked under Spec.                    *)

\* C30: at every zoom the program reaches, the surface-size ceiling is not
\* exceeded (zoom * 2048 <= 8192 and zoom * 512 <= 8192), and the effective
\* zoom differs from the zoom only by the truncation of the scaled size:
\* 0 < effective zoom <= zoom and zoom - effective zoom < 1 / 512.
C30_EffectiveZoomNear ==
    /\ RLe(RMul(zoom, R(TILESET_WIDTH)), R(MAX_SURFACE_DIM))
    /\ RLe(RMul(zoom, R(TILESET_HEIGHT)), R(MAX_SURFACE_DIM))
    /\ RLt(R(0), actual_applied_zoom)
    /\ RLe(actual_applied_zoom, zoom)
    /\ RLt(RSub(zoom, actual_applied_zoom), Frac(1, TILESET_HEIGHT))

\* One '+' press from zoom 1.0: the zoom is 1.2 and the effective zoom is
\* 614 / 512, less than the zoom.
C30_Witness ==
    /\ last_event = "zoom_center"
    /\ zoom = Frac(6, 5)
    /\ actual_applied_zoom = Frac(614, 512)

====
